---- MODULE Spec2Model ----
(***************************************************************************)
(* Model of the scrape engine of openldap_exporter (src/scraper.go):       *)
(* the query catalog, the scrape cycle (dial, bind, one search per         *)
(* descriptor, the attribute parsers, the cross-check against the master   *)
(* node), the metric sink and the ticker-driven monitor loop.              *)
(*                                                                         *)
(* Attribute values are sequences of one-character strings, so that        *)
(* strings.Split, time.Parse and strconv.ParseFloat are computed on the    *)
(* characters of the value. Numbers are integers: time.Time.Unix() is an   *)
(* integer number of seconds, and the numerals used as inputs are decimal  *)
(* integers.                                                               *)
(***************************************************************************)
EXTENDS Integers, Sequences, FiniteSets, TLC

\* ------------------------------------------------------------------------
\* Bounds of the model
\* ------------------------------------------------------------------------

\* Scrape cycles the monitor loop may start in one behaviour.
MaxCycles == 2

\* Entries one search result may hold.
MaxEntries == 2

\* Ticks the ticker may fire in one behaviour, where they are counted.
MaxTicks == 3

\* Calls of Start in one behaviour, where Start may be called again.
MaxStarts == 2

\* ------------------------------------------------------------------------
\* Characters and strings
\* ------------------------------------------------------------------------

Digits == {"0", "1", "2", "3", "4", "5", "6", "7", "8", "9"}

isDigit(s, i) == i >= 1 /\ i <= Len(s) /\ s[i] \in Digits

DigitVal(c) ==
    CASE c = "0" -> 0 [] c = "1" -> 1 [] c = "2" -> 2 [] c = "3" -> 3
      [] c = "4" -> 4 [] c = "5" -> 5 [] c = "6" -> 6 [] c = "7" -> 7
      [] c = "8" -> 8 [] c = "9" -> 9

\* The decimal value of the digits s[i..j].
RECURSIVE DecVal(_, _, _)
DecVal(s, i, j) ==
    IF j < i THEN 0 ELSE DecVal(s, i, j - 1) * 10 + DigitVal(s[j])

AllDigits(s, i, j) == \A k \in i..j : isDigit(s, k)

\* strings.Split(val, "#"): the fields between the separators; a value with
\* no separator is one field, an empty value is one empty field.
RECURSIVE SplitFrom(_, _, _)
SplitFrom(s, i, cur) ==
    IF i > Len(s) THEN <<cur>>
    ELSE IF s[i] = "#" THEN <<cur>> \o SplitFrom(s, i + 1, <<>>)
    ELSE SplitFrom(s, i + 1, Append(cur, s[i]))

Split(s) == SplitFrom(s, 1, <<>>)

\* strconv.ParseFloat(s, 64) on decimal integer numerals: an optional sign
\* and at least one digit. Every other value used as an input holds a
\* letter that no float syntax accepts, and is a syntax error, for which
\* ParseFloat returns 0 and an error.
ParseFloat(s) ==
    LET signed == Len(s) >= 1 /\ s[1] \in {"+", "-"}
        from   == IF signed THEN 2 ELSE 1
        ok     == Len(s) >= from /\ AllDigits(s, from, Len(s))
        mag    == IF ok THEN DecVal(s, from, Len(s)) ELSE 0
    IN  [err |-> ~ok,
         num |-> IF signed /\ s[1] = "-" THEN 0 - mag ELSE mag]

\* ------------------------------------------------------------------------
\* time.Parse("20060102150405.999999Z", s) and Time.Unix()
\* ------------------------------------------------------------------------

IsLeap(y) == (y % 4 = 0) /\ ((y % 100 # 0) \/ (y % 400 = 0))

daysIn(m, y) ==
    IF m = 2 THEN (IF IsLeap(y) THEN 29 ELSE 28)
    ELSE IF m \in {4, 6, 9, 11} THEN 30 ELSE 31

\* Days from 1970-01-01 to the civil date y-m-d (proleptic Gregorian).
DaysSinceEpoch(y, m, d) ==
    LET yy  == IF m <= 2 THEN y - 1 ELSE y
        era == yy \div 400
        yoe == yy - era * 400
        mp  == IF m > 2 THEN m - 3 ELSE m + 9
        doy == (153 * mp + 2) \div 5 + d - 1
        doe == yoe * 365 + yoe \div 4 - yoe \div 100 + doy
    IN  era * 146097 + doe - 719468

\* The end of the fractional second that starts at s[f] (a period followed
\* by a digit takes every digit that follows); f itself when there is none.
RECURSIVE DigitsEnd(_, _)
DigitsEnd(s, i) == IF isDigit(s, i) THEN DigitsEnd(s, i + 1) ELSE i

\* A variant of FracEnd that takes five digits at most.
FracEndFive(s, f) ==
    IF f + 1 <= Len(s) /\ s[f] = "." /\ isDigit(s, f + 1)
    THEN IF DigitsEnd(s, f + 1) > f + 6 THEN f + 6 ELSE DigitsEnd(s, f + 1)
    ELSE f

FracEnd(s, f) ==
    IF f + 1 <= Len(s) /\ s[f] = "." /\ isDigit(s, f + 1)
    THEN DigitsEnd(s, f + 1)
    ELSE f

\* time.Parse with the layout 2006 01 02 15 04 05 .999999 Z: a four-digit
\* year, two-digit month and day, an hour of one or two digits, two-digit
\* minute and second, an optional fractional second, the literal Z and
\* nothing after it; month, day, hour, minute and second must be in range.
\* unix is Time.Unix() of the result in UTC (the fraction is dropped); on an
\* error the result is the zero Time, whose Unix time (-62135596800) is
\* written "zero time".
ParseTime(s) ==
    LET headOk == Len(s) >= 9 /\ AllDigits(s, 1, 9)
        hEnd   == IF isDigit(s, 10) THEN 10 ELSE 9
        restOk == headOk /\ Len(s) >= hEnd + 4 /\ AllDigits(s, hEnd + 1, hEnd + 4)
        f      == hEnd + 5
        z      == FracEnd(s, f)
        tailOk == restOk /\ Len(s) = z /\ s[z] = "Z"
        year   == DecVal(s, 1, 4)
        month  == DecVal(s, 5, 6)
        day    == DecVal(s, 7, 8)
        hour   == DecVal(s, 9, hEnd)
        min    == DecVal(s, hEnd + 1, hEnd + 2)
        sec    == DecVal(s, hEnd + 3, hEnd + 4)
        ok     == /\ tailOk
                  /\ month >= 1 /\ month <= 12
                  /\ hour < 24 /\ min < 60 /\ sec < 60
                  /\ day >= 1 /\ day <= daysIn(month, year)
    IN  IF ok
        THEN [err |-> FALSE,
              unix |-> DaysSinceEpoch(year, month, day) * 86400
                       + hour * 3600 + min * 60 + sec]
        ELSE [err |-> TRUE, unix |-> "zero time"]

\* ------------------------------------------------------------------------
\* parseContextCSN (scraper.go:148-172)
\* ------------------------------------------------------------------------

\* The decoder's result: the named return values gt, count, sid, mod and
\* err. panic is the run-time panic of an index expression valueBuffer[i]
\* on a value with too few fields. On a time error gt is the Unix time of
\* the zero Time, which no caller reads.
CSN(p, e, gt, count, sid, mod) ==
    [panic |-> p, err |-> e, gt |-> gt, count |-> count, sid |-> sid, mod |-> mod]

parseContextCSN(val) ==
    LET valueBuffer == Split(val)
        t           == ParseTime(valueBuffer[1])
        count       == ParseFloat(valueBuffer[2])
        sid         == valueBuffer[3]
        mod         == ParseFloat(valueBuffer[4])
    IN  IF t.err THEN CSN(FALSE, TRUE, t.unix, 0, <<>>, 0)
        ELSE IF Len(valueBuffer) < 2 THEN CSN(TRUE, FALSE, t.unix, 0, <<>>, 0)
        ELSE IF count.err THEN CSN(FALSE, TRUE, t.unix, count.num, <<>>, 0)
        ELSE IF Len(valueBuffer) < 4 THEN CSN(TRUE, FALSE, t.unix, count.num, <<>>, 0)
        ELSE IF mod.err THEN CSN(FALSE, TRUE, t.unix, count.num, sid, mod.num)
        ELSE CSN(FALSE, FALSE, t.unix, count.num, sid, mod.num)

\* ------------------------------------------------------------------------
\* The catalog and the metric sink
\* ------------------------------------------------------------------------

baseDN == "cn=Monitor"
opsBaseDN == "cn=Operations,cn=Monitor"
monitorCounterObject == "monitorCounterObject"
monitorCounter == "monitorCounter"
monitoredObject == "monitoredObject"
monitoredInfo == "monitoredInfo"
monitorOperation == "monitorOperation"
monitorOpCompleted == "monitorOpCompleted"
monitorReplicationFilter == "contextCSN"

Metrics == {"monitoredObjectGauge", "monitorCounterObjectGauge",
            "monitorOperationGauge", "monitorReplicationGauge"}

\* type query: the zero value of RepolicateResult is 0.
Query(base, filter, attr, metric, setData) ==
    [baseDN |-> base, searchFilter |-> filter, searchAttr |-> attr,
     metric |-> metric, setData |-> setData, RepolicateResult |-> 0]

\* var queries: the four static descriptors.
StaticQueries ==
    << Query(baseDN, monitoredObject, monitoredInfo,
             "monitoredObjectGauge", "setValue"),
       Query(baseDN, monitorCounterObject, monitorCounter,
             "monitorCounterObjectGauge", "setValue"),
       Query(opsBaseDN, monitorOperation, monitorOpCompleted,
             "monitorOperationGauge", "setValue"),
       Query(opsBaseDN, monitorOperation, monitorOpCompleted,
             "monitorOperationGauge", "setValue") >>

\* A variant of GaugeSet that adds v to the point.
GaugeAdd(g, metric, labels, v) ==
    [g EXCEPT ![metric] =
        (labels :> (IF labels \in DOMAIN @ THEN @[labels] + v ELSE v)) @@ @]

\* GaugeVec.WithLabelValues(labels...).Set(v) on the sink g.
GaugeSet(g, metric, labels, v) ==
    [g EXCEPT ![metric] = (labels :> v) @@ @]

\* A variant of CounterInc that counts only the successful cycles.
CounterIncOkOnly(c, result) ==
    IF result = "ok" THEN [c EXCEPT ![result] = @ + 1] ELSE c

\* CounterVec.WithLabelValues(result).Inc()
CounterInc(c, result) == [c EXCEPT ![result] = @ + 1]

\* A variant of setValue that publishes what ParseFloat returned, error or
\* not.
setValueUnchecked(g, q, dn, val) ==
    IF val = <<>> THEN g
    ELSE GaugeSet(g, q.metric, <<dn>>, ParseFloat(val).num)

\* One iteration of setValue's loop: the entry (dn, val) on descriptor q.
setValue(g, q, dn, val) ==
    IF val = <<>> THEN g
    ELSE LET r == ParseFloat(val)
         IN  IF r.err THEN g ELSE GaugeSet(g, q.metric, <<dn>>, r.num)

\* addReplicationQueries: one descriptor appended per element of s.Sync.
RECURSIVE addReplicationQueries(_, _)
addReplicationQueries(qs, sync) ==
    IF sync = <<>> THEN qs
    ELSE addReplicationQueries(
            Append(qs, Query(Head(sync), "*", monitorReplicationFilter,
                             "monitorReplicationGauge", "setReplicationValue")),
            Tail(sync))

\* ------------------------------------------------------------------------
\* The directory's values
\*
\* A replication token is described by how it was written: the number of
\* '#'-separated fields it holds and the text of each. TokenText is the
\* attribute value the program reads; the description itself is what the
\* properties below are stated on, and the program never sees it.
\* ------------------------------------------------------------------------

\* Generalized times, by name: well formed ...
GoodTimes == {"A", "B", "leap", "epoch", "eoy", "mar"}

\* ... and malformed: a missing digit, month 13, 29 February of a common
\* year, no Z, a period with no digit, hour 24, a letter, text after the Z,
\* 31 April.
BadTimes == {"short", "month13", "feb29", "noZ", "dotZ", "hour24", "letter", "extra", "apr31"}

TimeText(t) ==
    CASE
         t = "A" -> <<"2", "0", "2", "1", "1", "0", "0", "1", "1", "2", "0", "0", "0", "0", ".", "1", "2", "3", "4", "5", "6", "Z">>
      [] t = "B" -> <<"2", "0", "2", "1", "1", "0", "0", "1", "1", "2", "0", "0", "1", "0", "Z">>
      [] t = "leap" -> <<"2", "0", "2", "4", "0", "2", "2", "9", "0", "0", "0", "0", "0", "0", "Z">>
      [] t = "epoch" -> <<"1", "9", "7", "0", "0", "1", "0", "1", "0", "0", "0", "0", "0", "0", "Z">>
      [] t = "eoy" -> <<"2", "0", "2", "1", "1", "2", "3", "1", "2", "3", "5", "9", "5", "9", ".", "9", "Z">>
      [] t = "mar" -> <<"2", "0", "0", "0", "0", "3", "0", "1", "0", "0", "0", "0", "0", "0", "Z">>
      [] t = "short" -> <<"2", "0", "2", "1", "1", "0", "0", "1", "1", "2", "0", "0", "0", "Z">>
      [] t = "month13" -> <<"2", "0", "2", "1", "1", "3", "0", "1", "1", "2", "0", "0", "0", "0", "Z">>
      [] t = "feb29" -> <<"2", "0", "2", "3", "0", "2", "2", "9", "0", "0", "0", "0", "0", "0", "Z">>
      [] t = "noZ" -> <<"2", "0", "2", "1", "1", "0", "0", "1", "1", "2", "0", "0", "0", "0">>
      [] t = "dotZ" -> <<"2", "0", "2", "1", "1", "0", "0", "1", "1", "2", "0", "0", "0", "0", ".", "Z">>
      [] t = "hour24" -> <<"2", "0", "2", "1", "1", "0", "0", "1", "2", "4", "0", "0", "0", "0", "Z">>
      [] t = "letter" -> <<"2", "0", "2", "1", "X", "0", "0", "1", "1", "2", "0", "0", "0", "0", "Z">>
      [] t = "extra" -> <<"2", "0", "2", "1", "1", "0", "0", "1", "1", "2", "0", "0", "0", "0", "Z", "x">>
      [] t = "apr31" -> <<"2", "0", "2", "1", "0", "4", "3", "1", "0", "0", "0", "0", "0", "0", "Z">>

\* Seconds from 1970-01-01T00:00:00Z to each well-formed time.
TimeUnix(t) ==
    CASE
         t = "A" -> 1633089600
      [] t = "B" -> 1633089610
      [] t = "leap" -> 1709164800
      [] t = "epoch" -> 0
      [] t = "eoy" -> 1640995199
      [] t = "mar" -> 951868800

GoodNums == {"5", "000000", "2"}
BadNums == {"abc", "x"}

NumText(n) ==
    CASE n = "5" -> <<"5">>
      [] n = "000000" -> <<"0", "0", "0", "0", "0", "0">>
      [] n = "2" -> <<"2">>
      [] n = "7" -> <<"7">>
      [] n = "abc" -> <<"a", "b", "c">>
      [] n = "x" -> <<"x">>
      [] n = "" -> <<>>

NumVal(n) == CASE n = "5" -> 5 [] n = "000000" -> 0 [] n = "2" -> 2 [] n = "7" -> 7

Sids == {"001", "node1"}

SidText(x) ==
    CASE x = "001" -> <<"0", "0", "1">>
      [] x = "node1" -> <<"n", "o", "d", "e", "1">>

\* A token of nf fields: time, count, server id, modifier, and a fifth
\* field that the program never reads. nf = 0 is the absent attribute.
Token(nf, t, c, x, m) == [nf |-> nf, t |-> t, c |-> c, sid |-> x, m |-> m]

RECURSIVE Join(_)
Join(fields) ==
    IF Len(fields) = 0 THEN <<>>
    ELSE IF Len(fields) = 1 THEN fields[1]
    ELSE fields[1] \o <<"#">> \o Join(Tail(fields))

TokenText(tok) ==
    Join(SubSeq(<<TimeText(tok.t), NumText(tok.c), SidText(tok.sid),
                  NumText(tok.m), <<"x">>>>, 1, tok.nf))

Absent == Token(0, "A", "5", "001", "2")

\* A token that decodes: four fields or more, a well-formed time, numeric
\* count and modifier.
ValidToken(tok) ==
    tok.nf >= 4 /\ tok.t \in GoodTimes /\ tok.c \in GoodNums /\ tok.m \in GoodNums

\* What the directory may return to the scrape loop: the entry names and
\* values of the plain numeric attributes, the tokens of the local
\* contextCSN attribute and those of the master's.
DNs == {"cn=Total,cn=Connections,cn=Monitor"}

PlainValues == {"", "abc", "5"}

LocalTokens ==
    { Absent,
      Token(4, "A", "5", "001", "2"),
      Token(4, "A", "000000", "001", "000000"),
      Token(4, "short", "5", "001", "2"),
      Token(4, "A", "abc", "001", "2"),
      Token(4, "A", "5", "001", "x"),
      Token(1, "A", "5", "001", "2"),
      Token(3, "B", "5", "001", "2"),
      Token(1, "letter", "5", "001", "2") }

MasterTokens ==
    { Absent,
      Token(4, "B", "000000", "001", "000000"),
      Token(3, "B", "abc", "001", "2"),
      Token(4, "short", "5", "001", "2"),
      Token(2, "A", "5", "001", "2") }

\* The values the directory may hold, and the harness below may try, and
\* parseContextCSN of each, computed once.
ProbeTokens ==
    { Token(nf, t, c, x, m) :
        nf \in 0..5, t \in GoodTimes \cup BadTimes,
        c \in {"5", "000000", "abc"}, x \in Sids, m \in {"2", "000000", "x"} }

Values == { TokenText(tok) : tok \in LocalTokens \cup MasterTokens \cup ProbeTokens }

Decoded == [val \in Values |-> parseContextCSN(val)]

\* A variant of setReplicationValue that publishes the timestamp of a value
\* as soon as its first field is a well-formed time.
setReplicationValuePartial(g, q, val) ==
    IF val = <<>> THEN [panic |-> FALSE, stored |-> FALSE, gauge |-> g, q |-> q]
    ELSE LET r == Decoded[val]
             f == Split(val)
             s == IF Len(f) >= 3 THEN f[3] ELSE <<>>
         IN  IF r.panic THEN [panic |-> TRUE, stored |-> FALSE, gauge |-> g, q |-> q]
             ELSE IF r.err /\ ParseTime(f[1]).err
             THEN [panic |-> FALSE, stored |-> FALSE, gauge |-> g, q |-> q]
             ELSE IF r.err
             THEN [panic |-> FALSE, stored |-> FALSE,
                   gauge |-> GaugeSet(g, q.metric, <<s, "gt">>, r.gt), q |-> q]
             ELSE [panic |-> FALSE, stored |-> TRUE,
                   gauge |-> GaugeSet(
                                GaugeSet(
                                   GaugeSet(g, q.metric, <<r.sid, "gt">>, r.gt),
                                   q.metric, <<r.sid, "count">>, r.count),
                                q.metric, <<r.sid, "mod">>, r.mod),
                   q     |-> [q EXCEPT !.RepolicateResult = r.gt]]

\* One iteration of setReplicationValue's loop: the value val on descriptor
\* q. The result is the sink and the descriptor after it (stored: the
\* cache was written), or a panic. Decoded[val] is parseContextCSN(val).
setReplicationValue(g, q, val) ==
    IF val = <<>> THEN [panic |-> FALSE, stored |-> FALSE, gauge |-> g, q |-> q]
    ELSE LET r == Decoded[val]
         IN  IF r.panic THEN [panic |-> TRUE, stored |-> FALSE, gauge |-> g, q |-> q]
             ELSE IF r.err THEN [panic |-> FALSE, stored |-> FALSE, gauge |-> g, q |-> q]
             ELSE [panic |-> FALSE, stored |-> TRUE,
                   gauge |-> GaugeSet(
                                GaugeSet(
                                   GaugeSet(g, q.metric, <<r.sid, "gt">>, r.gt),
                                   q.metric, <<r.sid, "count">>, r.count),
                                q.metric, <<r.sid, "mod">>, r.mod),
                   q     |-> [q EXCEPT !.RepolicateResult = r.gt]]

\* The Scraper values the process may be started with: with
\* bind credentials and the delay check, or without either; one replication
\* peer.
Scraper(user, pass, sync, detal) ==
    [User |-> user, Pass |-> pass, Sync |-> sync, LdapSyncTimeDetal |-> detal]

Scrapers ==
    { Scraper("admin", "secret", <<"dc=a">>, TRUE),
      Scraper("", "", <<"dc=a">>, FALSE) }

\* A Scraper with two replication peers, the delay check and no credentials.
PeersScraper == Scraper("", "", <<"dc=a", "dc=b">>, TRUE)

\* ------------------------------------------------------------------------
\* State
\* ------------------------------------------------------------------------

VARIABLES
    queries,        \* the catalog (var queries)
    gauge,          \* the gauge vectors: metric -> labels -> value
    scrapeCounter,  \* the scrape counter: result -> count
    scraper,        \* the Scraper's fields
    pc,             \* where Start, runOnce and scrape stand
    idx,            \* the descriptor the range loop of scrape is at
    remaining,      \* entries of the current search result still to parse
    ret,            \* scrape's ret, and its return value once it has returned
    conn,           \* the connection to the directory is open
    masterConn,     \* the connection to the master is open
    tick,           \* a tick waits in ticker.C (a channel of capacity 1)
    cancelled,      \* ctx is done
    cycles,         \* calls of runOnce so far
    h,              \* what happened in the current cycle (history)
    last,           \* the entry the parser has just handled (history)
    probe,          \* the decoder harness: the token under test
    decoded,        \* the decoder harness: what the program made of it
    fired           \* ticks the ticker has fired, where they are counted (history)

vars == <<queries, gauge, scrapeCounter, scraper, pc, idx, remaining, ret,
          conn, masterConn, tick, cancelled, cycles, h, last, probe, decoded,
          fired>>

\* The cached local timestamps, by descriptor.
Cache == [i \in DOMAIN queries |-> queries[i].RepolicateResult]

NoEntry == [q |-> 0, dn |-> "", v |-> "", tok |-> Absent]

NoMaster == [out |-> "none", tok |-> Absent]

\* History of a cycle. searched: the descriptors searched; anyErr: a search
\* failed; fail: the dial or the bind that failed; dials: connections
\* opened to the directory; masterDials: connections opened to the master;
\* binds: the connections a bind was attempted on;
\* result: the label runOnce incremented. Of the current iteration of the
\* loop: searchErr (its search failed), setData (its parser was invoked),
\* cached (the parser wrote the cache), master (what the master answered:
\* a failed dial, bind or search, an empty result, or an entry and its
\* token), delaySet (a delay point was published).
H0 ==
    [searched |-> {}, anyErr |-> FALSE, fail |-> "none", dials |-> 0,
     masterDials |-> 0,
     binds |-> {}, result |-> "none",
     searchErr |-> FALSE, setData |-> FALSE, cached |-> FALSE,
     master |-> NoMaster, delaySet |-> FALSE]

NoProbe == [tok |-> Absent, on |-> FALSE]

NotDecoded == [done |-> FALSE, res |-> CSN(FALSE, FALSE, 0, 0, <<>>, 0)]

Init ==
    /\ queries = StaticQueries
    /\ gauge = [m \in Metrics |-> [l \in {} |-> 0]]
    /\ scrapeCounter = [ok |-> 0, fail |-> 0]
    /\ scraper \in Scrapers
    /\ pc = "New"
    /\ idx = 0
    /\ remaining = 0
    /\ ret = TRUE
    /\ conn = FALSE
    /\ masterConn = FALSE
    /\ tick = FALSE
    /\ cancelled = FALSE
    /\ cycles = 0
    /\ h = H0
    /\ last = NoEntry
    /\ probe = NoProbe
    /\ decoded = NotDecoded
    /\ fired = 0

\* ------------------------------------------------------------------------
\* Start and the monitor loop (scraper.go:252-267)
\* ------------------------------------------------------------------------

harness == <<probe, decoded, fired>>

\* Start up to the loop: the replication descriptors are appended to the
\* catalog and the ticker is created.
Start ==
    /\ pc = "New"
    /\ queries' = addReplicationQueries(queries, scraper.Sync)
    /\ pc' = "Idle"
    /\ UNCHANGED <<gauge, scrapeCounter, scraper, idx, remaining, ret, conn,
                   masterConn, tick, cancelled, cycles, h, last, harness>>

\* The ticker fires. ticker.C holds one tick: a tick that finds it full is
\* dropped, which changes nothing.
Tick ==
    /\ pc \notin {"New", "Stopped", "Crashed"}
    /\ ~tick
    /\ tick' = TRUE
    /\ UNCHANGED <<queries, gauge, scrapeCounter, scraper, pc, idx, remaining,
                   ret, conn, masterConn, cancelled, cycles, h, last, harness>>

\* The caller cancels ctx.
Cancel ==
    /\ pc \notin {"Stopped", "Crashed"}
    /\ ~cancelled
    /\ cancelled' = TRUE
    /\ UNCHANGED <<queries, gauge, scrapeCounter, scraper, pc, idx, remaining,
                   ret, conn, masterConn, tick, cycles, h, last, harness>>

\* A variant of SelectTick that leaves the tick in the channel.
SelectTickKeeps ==
    /\ pc = "Idle"
    /\ tick
    /\ cycles < MaxCycles
    /\ cycles' = cycles + 1
    /\ pc' = "Dial"
    /\ h' = H0
    /\ UNCHANGED <<queries, gauge, scrapeCounter, scraper, idx, remaining, ret,
                   conn, masterConn, tick, cancelled, last, harness>>

\* select receives from ticker.C and calls runOnce.
SelectTick ==
    /\ pc = "Idle"
    /\ tick
    /\ cycles < MaxCycles
    /\ tick' = FALSE
    /\ cycles' = cycles + 1
    /\ pc' = "Dial"
    /\ h' = H0
    /\ UNCHANGED <<queries, gauge, scrapeCounter, scraper, idx, remaining, ret,
                   conn, masterConn, cancelled, last, harness>>

\* select receives from ctx.Done() and Start returns.
SelectDone ==
    /\ pc = "Idle"
    /\ cancelled
    /\ pc' = "Stopped"
    /\ UNCHANGED <<queries, gauge, scrapeCounter, scraper, idx, remaining, ret,
                   conn, masterConn, tick, cancelled, cycles, h, last, harness>>

\* ------------------------------------------------------------------------
\* runOnce (scraper.go:269-275)
\* ------------------------------------------------------------------------

runOnceResult(ok) == IF ok THEN "ok" ELSE "fail"

\* scrape returns r: its deferred conn.Close runs, and runOnce increments
\* the counter on the label of r.
Finish(hh, r) ==
    /\ pc' = "Returned"
    /\ ret' = r
    /\ conn' = FALSE
    /\ scrapeCounter' = CounterInc(scrapeCounter, runOnceResult(r))
    /\ h' = [hh EXCEPT !.result = runOnceResult(r)]

\* runOnce has returned: the loop is back at its select.
LoopBack ==
    /\ pc = "Returned"
    /\ pc' = "Idle"
    /\ idx' = 0
    /\ remaining' = 0
    /\ ret' = TRUE
    /\ h' = H0
    /\ last' = NoEntry
    /\ UNCHANGED <<queries, gauge, scrapeCounter, scraper, conn, masterConn,
                   tick, cancelled, cycles, harness>>

\* ------------------------------------------------------------------------
\* scrape (scraper.go:277-341)
\* ------------------------------------------------------------------------

\* scrape goes on at p, on descriptor i, with ret = r.
Goto(p, i, hh, r) ==
    /\ pc' = p
    /\ idx' = i
    /\ h' = hh
    /\ ret' = r
    /\ UNCHANGED <<conn, scrapeCounter>>

\* ret := true and the first iteration of the range loop.
EnterLoop(hh) ==
    IF Len(queries) >= 1
    THEN Goto("Search", 1, hh, TRUE)
    ELSE idx' = idx /\ Finish(hh, TRUE)

\* A variant of EarlyReturn that logs the failure and goes on to the loop.
EarlyReturnLogged(hh) == EnterLoop(hh)

\* A variant of EarlyReturn that returns without closing the connection.
EarlyReturnLeaks(hh) ==
    /\ idx' = idx
    /\ pc' = "Returned"
    /\ ret' = FALSE
    /\ conn' = conn
    /\ scrapeCounter' = CounterInc(scrapeCounter, runOnceResult(FALSE))
    /\ h' = [hh EXCEPT !.result = runOnceResult(FALSE)]

\* return false before the loop: the dial or the bind failed.
EarlyReturn(hh) ==
    /\ idx' = idx
    /\ Finish(hh, FALSE)

\* The next iteration of the range loop, or return ret after the last.
NextIter(i, hh, r) ==
    IF i < Len(queries)
    THEN Goto("Search", i + 1, hh, r)
    ELSE idx' = i /\ Finish(hh, r)

\* A variant of AfterQuery that does not look at LdapSyncTimeDetal.
AfterQueryAlways(i, hh, r) ==
    IF queries[i].searchAttr = monitorReplicationFilter
    THEN Goto("MasterDial", i, hh, r)
    ELSE NextIter(i, hh, r)

\* After scrapeQuery: the master check, for a contextCSN descriptor when
\* LdapSyncTimeDetal is set.
AfterQuery(i, hh, r) ==
    IF queries[i].searchAttr = monitorReplicationFilter /\ scraper.LdapSyncTimeDetal
    THEN Goto("MasterDial", i, hh, r)
    ELSE NextIter(i, hh, r)

\* A panic ends the process; its sockets are closed with it.
Panic(hh) ==
    /\ pc' = "Crashed"
    /\ idx' = idx
    /\ h' = hh
    /\ ret' = ret
    /\ conn' = FALSE
    /\ scrapeCounter' = scrapeCounter

\* ldap.Dial(s.Net, s.Addr)
Dial ==
    /\ pc = "Dial"
    /\ \E ok \in BOOLEAN :
          IF ok
          THEN /\ conn' = TRUE
               /\ pc' = "Bind"
               /\ h' = [h EXCEPT !.dials = @ + 1]
               /\ UNCHANGED <<ret, idx, scrapeCounter>>
          ELSE EarlyReturn([h EXCEPT !.fail = "dial"])
    /\ UNCHANGED <<queries, gauge, scraper, remaining, masterConn, tick,
                   cancelled, cycles, last, harness>>

\* conn.Bind(s.User, s.Pass), when both are non-empty.
Bind ==
    /\ pc = "Bind"
    /\ IF scraper.User # "" /\ scraper.Pass # ""
       THEN \E ok \in BOOLEAN :
               LET hh == [h EXCEPT !.binds = @ \cup {"main"}]
               IN  IF ok THEN EnterLoop(hh)
                   ELSE EarlyReturn([hh EXCEPT !.fail = "bind"])
       ELSE EnterLoop(h)
    /\ UNCHANGED <<queries, gauge, scraper, remaining, masterConn, tick,
                   cancelled, cycles, last, harness>>

\* A variant of SearchFailed that returns false at once.
SearchFailedReturns(hh) ==
    /\ remaining' = 0
    /\ idx' = idx
    /\ Finish(hh, FALSE)

\* A variant of SearchFailed that logs the error and leaves ret as it is.
SearchFailedKeepsRet(hh) ==
    /\ remaining' = 0
    /\ AfterQuery(idx, hh, ret)

\* scrapeQuery returned an error: it is logged, ret = false, and the
\* iteration goes on to the master check.
SearchFailed(hh) ==
    /\ remaining' = 0
    /\ AfterQuery(idx, hh, FALSE)

\* conn.Search returned n entries: q.setData is called on them.
SearchDone(hh, n) ==
    /\ remaining' = n
    /\ IF n = 0
       THEN AfterQuery(idx, [hh EXCEPT !.setData = TRUE], ret)
       ELSE Goto("SetData", idx, [hh EXCEPT !.setData = TRUE], ret)

\* scrapeQuery's conn.Search on the descriptor queries[idx]: an error (-1)
\* or a result of up to MaxEntries entries.
Search ==
    /\ pc = "Search"
    /\ last' = NoEntry
    /\ LET hh == [h EXCEPT !.searched = @ \cup {idx}, !.searchErr = FALSE,
                           !.setData = FALSE, !.cached = FALSE,
                           !.master = NoMaster, !.delaySet = FALSE]
       IN  \E out \in -1..MaxEntries :
              IF out = -1
              THEN SearchFailed([hh EXCEPT !.searchErr = TRUE, !.anyErr = TRUE])
              ELSE SearchDone(hh, out)
    /\ UNCHANGED <<queries, gauge, scraper, masterConn, tick, cancelled,
                   cycles, harness>>

\* A variant of EntryDone that leaves the parser's loop after one entry.
EntryDoneBreak(hh) ==
    /\ remaining' = 0
    /\ AfterQuery(idx, hh, ret)

\* The end of one iteration of a parser's loop over the entries.
EntryDone(hh) ==
    /\ remaining' = remaining - 1
    /\ IF remaining = 1
       THEN AfterQuery(idx, hh, ret)
       ELSE Goto(pc, idx, hh, ret)

\* q.setData on the next entry of the search result.
SetData ==
    /\ pc = "SetData"
    /\ LET q == queries[idx]
       IN  IF q.setData = "setValue"
           THEN \E dn \in DNs, v \in PlainValues :
                   /\ gauge' = setValue(gauge, q, dn, NumText(v))
                   /\ queries' = queries
                   /\ last' = [q |-> idx, dn |-> dn, v |-> v, tok |-> Absent]
                   /\ EntryDone(h)
           ELSE \E tok \in LocalTokens :
                   LET r == setReplicationValue(gauge, q, TokenText(tok))
                   IN  /\ last' = [q |-> idx, dn |-> "", v |-> "", tok |-> tok]
                       /\ gauge' = r.gauge
                       /\ queries' = [queries EXCEPT ![idx] = r.q]
                       /\ IF r.panic
                          THEN Panic(h) /\ remaining' = remaining
                          ELSE EntryDone([h EXCEPT !.cached = @ \/ r.stored])
    /\ UNCHANGED <<scraper, masterConn, tick, cancelled, cycles, harness>>

\* A variant of MasterFail that logs the failure and goes on.
MasterFailLogged(hh) == NextIter(idx, hh, ret)

\* A failure of the master check: return false.
MasterFail(hh) ==
    /\ idx' = idx
    /\ Finish(hh, FALSE)

\* queryMasterContext's ldap.Dial(s.Net, s.LdapSyncMasterAddr)
MasterDial ==
    /\ pc = "MasterDial"
    /\ last' = NoEntry
    /\ \E ok \in BOOLEAN :
          IF ok
          THEN /\ masterConn' = TRUE
               /\ Goto("MasterQuery", idx, [h EXCEPT !.masterDials = @ + 1], ret)
          ELSE /\ masterConn' = FALSE
               /\ MasterFail([h EXCEPT !.master = [out |-> "dial", tok |-> Absent]])
    /\ UNCHANGED <<queries, gauge, scraper, remaining, tick, cancelled, cycles,
                   harness>>

\* The first entry of the master's result (scraper.go:316-333).
MasterEntry(hh, tok) ==
    LET q           == queries[idx]
        val         == TokenText(tok)
        valueBuffer == Split(val)
        gt          == ParseTime(valueBuffer[1])
    IN  IF val = <<>>
        THEN NextIter(idx, hh, ret) /\ gauge' = gauge
        ELSE IF gt.err
        THEN MasterFail(hh) /\ gauge' = gauge
        ELSE IF Len(valueBuffer) < 3
        THEN Panic(hh) /\ gauge' = gauge
        ELSE /\ gauge' = GaugeSet(gauge, q.metric, <<valueBuffer[3], "delay">>,
                                  gt.unix - q.RepolicateResult)
             /\ NextIter(idx, [hh EXCEPT !.delaySet = TRUE], ret)

\* The rest of queryMasterContext (the bind, the search and the deferred
\* Close) and what scrape does with the result.
MasterQuery ==
    /\ pc = "MasterQuery"
    /\ masterConn' = FALSE
    /\ \E out \in {"bind", "search", "empty", "entry"}, tok \in MasterTokens :
          LET hh == [h EXCEPT !.binds = @ \cup {"master"},
                              !.master = [out |-> out,
                                          tok |-> IF out = "entry" THEN tok
                                                  ELSE Absent]]
          IN  IF out = "entry"
              THEN MasterEntry(hh, tok)
              ELSE MasterFail(hh) /\ gauge' = gauge
    /\ UNCHANGED <<queries, scraper, remaining, tick, cancelled, cycles, last,
                   harness>>

Next ==
    \/ Start
    \/ Tick
    \/ Cancel
    \/ SelectTick
    \/ SelectDone
    \/ Dial
    \/ Bind
    \/ Search
    \/ SetData
    \/ MasterDial
    \/ MasterQuery
    \/ LoopBack

Spec == Init /\ [][Next]_vars

\* The same program, started with two replication peers.
InitPeers ==
    /\ queries = StaticQueries
    /\ gauge = [m \in Metrics |-> [l \in {} |-> 0]]
    /\ scrapeCounter = [ok |-> 0, fail |-> 0]
    /\ scraper = PeersScraper
    /\ pc = "New"
    /\ idx = 0
    /\ remaining = 0
    /\ ret = TRUE
    /\ conn = FALSE
    /\ masterConn = FALSE
    /\ tick = FALSE
    /\ cancelled = FALSE
    /\ cycles = 0
    /\ h = H0
    /\ last = NoEntry
    /\ probe = NoProbe
    /\ decoded = NotDecoded
    /\ fired = 0

SpecPeers == InitPeers /\ [][Next]_vars

\* The same program with the ticks of the ticker counted: a tick that finds
\* ticker.C full is fired and dropped.
InitTicks ==
    /\ queries = StaticQueries
    /\ gauge = [m \in Metrics |-> [l \in {} |-> 0]]
    /\ scrapeCounter = [ok |-> 0, fail |-> 0]
    /\ scraper = Scraper("admin", "secret", <<"dc=a">>, TRUE)
    /\ pc = "New"
    /\ idx = 0
    /\ remaining = 0
    /\ ret = TRUE
    /\ conn = FALSE
    /\ masterConn = FALSE
    /\ tick = FALSE
    /\ cancelled = FALSE
    /\ cycles = 0
    /\ h = H0
    /\ last = NoEntry
    /\ probe = NoProbe
    /\ decoded = NotDecoded
    /\ fired = 0

\* The ticker fires: the tick is sent to ticker.C, or dropped when one
\* waits there already.
TickFired ==
    /\ pc \notin {"New", "Stopped", "Crashed"}
    /\ fired < MaxTicks
    /\ fired' = fired + 1
    /\ tick' = TRUE
    /\ UNCHANGED <<queries, gauge, scrapeCounter, scraper, pc, idx, remaining,
                   ret, conn, masterConn, cancelled, cycles, h, last, probe,
                   decoded>>

NextTicks ==
    \/ Start
    \/ TickFired
    \/ Cancel
    \/ SelectTick
    \/ SelectDone
    \/ Dial
    \/ Bind
    \/ Search
    \/ SetData
    \/ MasterDial
    \/ MasterQuery
    \/ LoopBack

SpecTicks == InitTicks /\ [][NextTicks]_vars

\* The steps of a cycle: runOnce runs scrape from its Dial to its return.
Cycle ==
    \/ Dial
    \/ Bind
    \/ Search
    \/ SetData
    \/ MasterDial
    \/ MasterQuery
    \/ LoopBack

\* The program under a fair scheduler: Start reaches its loop, a cycle that
\* has begun keeps taking steps (no directory call hangs), and the select,
\* which picks at random among its ready cases, does not pass over a
\* ctx.Done() that is ready again and again.
SpecLive ==
    /\ Init
    /\ [][Next]_vars
    /\ WF_vars(Start)
    /\ WF_vars(Cycle)
    /\ SF_vars(SelectDone)

\* The same program, whose caller may call Start again, with a new context,
\* once Start has returned. The delay check is off, so that the steps of the
\* master check are not among those of a cycle.
InitRestart ==
    /\ queries = StaticQueries
    /\ gauge = [m \in Metrics |-> [l \in {} |-> 0]]
    /\ scrapeCounter = [ok |-> 0, fail |-> 0]
    /\ scraper = Scraper("admin", "secret", <<"dc=a">>, FALSE)
    /\ pc = "New"
    /\ idx = 0
    /\ remaining = 0
    /\ ret = TRUE
    /\ conn = FALSE
    /\ masterConn = FALSE
    /\ tick = FALSE
    /\ cancelled = FALSE
    /\ cycles = 0
    /\ h = H0
    /\ last = NoEntry
    /\ probe = NoProbe
    /\ decoded = NotDecoded
    /\ fired = 0

\* Start has returned and is called again: the package's catalog is as the
\* previous call left it, the context and the ticker are new.
Restart ==
    /\ pc = "Stopped"
    /\ Len(queries) < Len(StaticQueries) + MaxStarts * Len(scraper.Sync)
    /\ pc' = "New"
    /\ cancelled' = FALSE
    /\ tick' = FALSE
    /\ UNCHANGED <<queries, gauge, scrapeCounter, scraper, idx, remaining, ret,
                   conn, masterConn, cycles, h, last, harness>>

NextRestart ==
    \/ Start
    \/ Tick
    \/ Cancel
    \/ SelectTick
    \/ SelectDone
    \/ Dial
    \/ Bind
    \/ Search
    \/ SetData
    \/ LoopBack
    \/ Restart

SpecRestart == InitRestart /\ [][NextRestart]_vars

\* The same program, started with two replication peers, with and without
\* the delay check.
InitConn ==
    /\ queries = StaticQueries
    /\ gauge = [m \in Metrics |-> [l \in {} |-> 0]]
    /\ scrapeCounter = [ok |-> 0, fail |-> 0]
    /\ scraper \in {PeersScraper, Scraper("", "", <<"dc=a", "dc=b">>, FALSE)}
    /\ pc = "New"
    /\ idx = 0
    /\ remaining = 0
    /\ ret = TRUE
    /\ conn = FALSE
    /\ masterConn = FALSE
    /\ tick = FALSE
    /\ cancelled = FALSE
    /\ cycles = 0
    /\ h = H0
    /\ last = NoEntry
    /\ probe = NoProbe
    /\ decoded = NotDecoded
    /\ fired = 0

SpecConn == InitConn /\ [][Next]_vars

\* ------------------------------------------------------------------------
\* The decoder on its own: parseContextCSN and setReplicationValue applied
\* to one value, on the replication descriptor of a fresh catalog.
\* ------------------------------------------------------------------------

InitCSN ==
    /\ queries = addReplicationQueries(StaticQueries, <<"dc=a">>)
    /\ gauge = [m \in Metrics |-> [l \in {} |-> 0]]
    /\ scrapeCounter = [ok |-> 0, fail |-> 0]
    /\ scraper = Scraper("", "", <<"dc=a">>, FALSE)
    /\ pc = "Decode"
    /\ idx = Len(StaticQueries) + 1
    /\ remaining = 1
    /\ ret = TRUE
    /\ conn = FALSE
    /\ masterConn = FALSE
    /\ tick = FALSE
    /\ cancelled = FALSE
    /\ cycles = 0
    /\ h = H0
    /\ last = NoEntry
    /\ probe \in { [tok |-> tok, on |-> TRUE] : tok \in ProbeTokens }
    /\ decoded = NotDecoded
    /\ fired = 0

\* parseContextCSN(val, fields) on the value under test.
DecodeCSN ==
    /\ pc = "Decode"
    /\ decoded' = [done |-> TRUE, res |-> parseContextCSN(TokenText(probe.tok))]
    /\ pc' = "Apply"
    /\ UNCHANGED <<queries, gauge, scrapeCounter, scraper, idx, remaining, ret,
                   conn, masterConn, tick, cancelled, cycles, h, last, probe,
                   fired>>

\* setReplicationValue on a result of one entry that holds the value.
ApplyCSN ==
    /\ pc = "Apply"
    /\ LET r == setReplicationValue(gauge, queries[idx], TokenText(probe.tok))
       IN  /\ gauge' = r.gauge
           /\ queries' = [queries EXCEPT ![idx] = r.q]
           /\ pc' = IF r.panic THEN "Crashed" ELSE "Applied"
           /\ remaining' = IF r.panic THEN remaining ELSE 0
    /\ UNCHANGED <<scrapeCounter, scraper, idx, ret, conn, masterConn, tick,
                   cancelled, cycles, h, last, probe, decoded, fired>>

NextCSN ==
    \/ DecodeCSN
    \/ ApplyCSN

SpecCSN == InitCSN /\ [][NextCSN]_vars

\* ------------------------------------------------------------------------
\* Properties
\* ------------------------------------------------------------------------

\* scrape is running: runOnce has been called and has not returned.
InCycle == pc \in {"Dial", "Bind", "Search", "SetData", "MasterDial", "MasterQuery"}

\* The master check of the current iteration failed: the dial, the bind or
\* the search failed, the result was empty, or the first field of the
\* master's token is not a well-formed time.
BadTime(tok) == tok.nf >= 1 /\ tok.t \in BadTimes

MasterCheckFailed ==
    \/ h.master.out \in {"dial", "bind", "search", "empty"}
    \/ h.master.out = "entry" /\ BadTime(h.master.tok)

\* A step of a parser that handles one entry.
EntryStep == pc = "SetData" /\ (remaining' # remaining \/ pc' = "Crashed")

\* The points of the replication gauge.
Repl == gauge["monitorReplicationGauge"]

\* C1: every completed cycle increments the scrape counter exactly once, on
\* the label ok or on the label fail: at every moment the two labels sum to
\* the number of cycles completed so far, and the cycle that has just
\* returned has recorded one of the two outcomes.
C1_CounterCountsCycles ==
    /\ scrapeCounter.ok + scrapeCounter.fail =
          IF InCycle \/ pc = "Crashed" THEN cycles - 1 ELSE cycles
    /\ pc = "Returned" => h.result \in {"ok", "fail"}

C1_Witness ==
    /\ pc = "Returned"
    /\ cycles = 2
    /\ scrapeCounter.ok = 1
    /\ scrapeCounter.fail = 1

\* C2: no failure of a cycle, a malformed replication token included, ends
\* the process: the process never crashes.
C2_NeverCrashes == pc # "Crashed"

\* C3: with the delay check on, a failure of the master check of a
\* replication descriptor (dial, bind, search, empty result, malformed time)
\* ends the cycle with the outcome fail, whatever succeeded before it.
C3_MasterFailureFailsCycle ==
    MasterCheckFailed =>
        /\ pc = "Returned"
        /\ ret = FALSE
        /\ h.result = "fail"
        /\ scraper.LdapSyncTimeDetal
        /\ queries[idx].searchAttr = monitorReplicationFilter

C3_Witness ==
    /\ pc = "Returned"
    /\ h.master.out = "entry"
    /\ BadTime(h.master.tok)
    /\ "main" \in h.binds
    /\ ~h.anyErr
    /\ h.searched = DOMAIN queries

\* C4: a cycle whose dial fails or whose bind is rejected is aborted at
\* once: it has searched no descriptor, opened no connection to the master
\* and recorded fail; and no step before the loop (the select, the dial,
\* the bind) changes a gauge point or a cached timestamp.
C4_AbortedCycle ==
    h.fail \in {"dial", "bind"} =>
        /\ pc = "Returned"
        /\ h.result = "fail"
        /\ h.searched = {}
        /\ h.masterDials = 0
        /\ "master" \notin h.binds
        /\ ~masterConn

C4_BeforeLoop ==
    pc \in {"Idle", "Dial", "Bind"} => gauge' = gauge /\ Cache' = Cache

C4_AbortChangesNothing == [](C4_AbortedCycle) /\ [][C4_BeforeLoop]_vars

C4_Witness ==
    /\ pc = "Returned"
    /\ h.fail = "bind"
    /\ cycles = 2
    /\ Repl # << >>

C6_FailIffDialBindMaster ==
    pc = "Returned" =>
        (h.result = "fail" <=>
            \/ h.fail \in {"dial", "bind"}
            \/ scraper.LdapSyncTimeDetal /\ MasterCheckFailed)

\* C6, amended: the outcome is fail exactly when the dial, the bind, a
\* search of a descriptor or (with the delay check on) the master check
\* failed; otherwise it is ok, even when a parser skipped an attribute.
C6_FailIffAnyFailure ==
    pc = "Returned" =>
        /\ h.result \in {"ok", "fail"}
        /\ h.result = "fail" <=>
              \/ h.fail \in {"dial", "bind"}
              \/ h.anyErr
              \/ scraper.LdapSyncTimeDetal /\ MasterCheckFailed
        /\ MasterCheckFailed => scraper.LdapSyncTimeDetal

C6_Witness ==
    /\ pc = "Returned"
    /\ h.result = "ok"
    /\ BadTime(last.tok)

\* A token with a well-formed time and a count that is not a number.
BadCount(tok) == tok.nf >= 2 /\ tok.t \in GoodTimes /\ tok.c \in BadNums

C8_BadTimePublishesNothing ==
    [][EntryStep /\ BadTime(last'.tok) =>
          /\ gauge' = gauge
          /\ Cache' = Cache
          /\ ret' = ret
          /\ pc' # "Crashed"
          /\ remaining > 1 => pc' = "SetData" /\ remaining' = remaining - 1]_vars

C8_Witness ==
    /\ BadTime(last.tok)
    /\ pc = "SetData"
    /\ remaining = 1
    /\ ret = TRUE

\* C9: a token T#C#S#M with a well-formed time T and numeric C and M decodes
\* to (Unix seconds of T, C, S, M) without error, and the parser applied
\* to it sets the points (S, gt), (S, count), (S, mod) to those values and
\* caches the Unix seconds of T on the descriptor.
C9_ValidTokenDecodes ==
    LET tok == probe.tok
        sid == SidText(tok.sid)
    IN  probe.on /\ tok.nf = 4 /\ tok.t \in GoodTimes
          /\ tok.c \in GoodNums /\ tok.m \in GoodNums =>
            /\ pc # "Crashed"
            /\ decoded.done =>
                  decoded.res = CSN(FALSE, FALSE, TimeUnix(tok.t), NumVal(tok.c),
                                    sid, NumVal(tok.m))
            /\ pc = "Applied" =>
                  /\ DOMAIN Repl = {<<sid, "gt">>, <<sid, "count">>, <<sid, "mod">>}
                  /\ Repl[<<sid, "gt">>] = TimeUnix(tok.t)
                  /\ Repl[<<sid, "count">>] = NumVal(tok.c)
                  /\ Repl[<<sid, "mod">>] = NumVal(tok.m)
                  /\ Cache[idx] = TimeUnix(tok.t)

C9_Witness ==
    /\ pc = "Applied"
    /\ probe.tok = Token(4, "A", "5", "node1", "2")
    /\ Cache[idx] = 1633089600

\* C10: a delay point is published only after the local timestamp of the
\* same descriptor was cached in the same cycle, and it is the master's
\* time minus that timestamp.
DelayIdx == IF pc = "Search" THEN idx - 1 ELSE idx

C10_DelayUsesFreshLocal ==
    h.delaySet =>
        /\ h.cached
        /\ Repl[<<SidText(h.master.tok.sid), "delay">>] =
              TimeUnix(h.master.tok.t) - Cache[DelayIdx]

\* C11: a connection opened during a cycle (to the directory or to the
\* master) is closed before the cycle ends, whatever way the cycle ends:
\* outside a cycle no connection is open, the connection to the directory
\* is open only between its dial and the return of scrape, and the
\* connection to the master only inside queryMasterContext.
C11_ConnectionsClosed ==
    /\ pc \in {"New", "Idle", "Stopped", "Returned", "Dial"} =>
          ~conn /\ ~masterConn
    /\ conn => InCycle /\ h.dials = 1
    /\ masterConn => pc = "MasterQuery" /\ conn

C11_Witness ==
    /\ pc = "Returned"
    /\ h.dials = 1
    /\ h.masterDials = 1
    /\ MasterCheckFailed
    /\ h.anyErr
    /\ ~conn
    /\ ~masterConn

\* The replication descriptors among the descriptors ds.
Replication(ds) == {i \in ds : queries[i].searchAttr = monitorReplicationFilter}

\* The points of the replication gauge that are delays.
DelayPoints == {l \in DOMAIN Repl : l[2] = "delay"}

Scraping == InCycle \/ pc = "Returned"

\* C13: cycles never overlap and are never interrupted: once started, the
\* scheduler is Idle, Scraping or Stopped; a cycle starts only from Idle, on a tick; a
\* cycle that runs goes on or completes and records its outcome, whether
\* cancellation has been signalled or not; cancellation changes nothing of a
\* running cycle; and Stopped is entered only from Idle.
C13_CyclesNotInterrupted ==
    [][/\ pc' \in {"New", "Idle", "Stopped"} \/ Scraping'
       /\ (InCycle' /\ ~InCycle) => (pc = "Idle" /\ tick /\ ~tick')
       /\ InCycle => (InCycle' \/ (pc' = "Returned" /\ h'.result \in {"ok", "fail"}))
       /\ (InCycle /\ cancelled' # cancelled) =>
             UNCHANGED <<pc, idx, remaining, ret, conn, gauge, scrapeCounter>>
       /\ (pc' = "Stopped" /\ pc # "Stopped") => pc = "Idle"]_vars

\* Ticks waiting in ticker.C.
Pending == IF tick THEN 1 ELSE 0

\* C14: ticks that elapse while a cycle runs are coalesced: the cycles
\* started and the tick that waits never exceed the ticks fired, a cycle
\* starts only by taking the one tick that waits, and after it none waits
\* until the ticker fires again.
C14_CyclesWithinTicks == cycles + Pending <= fired

C14_StartTakesTick ==
    cycles' # cycles =>
        /\ cycles' = cycles + 1
        /\ tick
        /\ ~tick'
        /\ fired' = fired

C14_TicksCoalesced == [](C14_CyclesWithinTicks) /\ [][C14_StartTakesTick]_vars

C14_Witness ==
    /\ pc = "Dial"
    /\ cycles = 2
    /\ fired = 3
    /\ ~tick
    /\ scrapeCounter.ok = 1

\* The base, filter, attribute, gauge and parser of each descriptor, in the
\* order of the catalog.
Descriptors ==
    [i \in DOMAIN queries |->
        <<queries[i].baseDN, queries[i].searchFilter, queries[i].searchAttr,
          queries[i].metric, queries[i].setData>>]

\* C15: however many times Start has been called with the same peers, the
\* catalog holds one replication descriptor for each peer, after the four
\* static ones; and no step of a cycle adds, removes or reorders
\* descriptors.
C15_CatalogOncePerPeer ==
    pc # "New" =>
        /\ Len(queries) = Len(StaticQueries) + Len(scraper.Sync)
        /\ Cardinality(Replication(DOMAIN queries)) = Len(scraper.Sync)
        /\ \A i \in 1..Len(scraper.Sync) :
              queries[Len(StaticQueries) + i].baseDN = scraper.Sync[i]

C15_CyclesKeepCatalog == pc # "New" => Descriptors' = Descriptors

C15_CatalogIdempotent ==
    [](C15_CatalogOncePerPeer) /\ [][C15_CyclesKeepCatalog]_vars

\* The step sets the point l of the gauge m to v: a parser's step on an
\* entry with a numeric value (the point of its dn) or with a valid token
\* (the points gt, count and mod of its server id), or the master check's
\* delay.
SetNow(m, l, v) ==
    \/ /\ EntryStep
       /\ queries[idx].setData = "setValue"
       /\ m = queries[idx].metric
       /\ last'.v \in GoodNums
       /\ l = <<last'.dn>>
       /\ v = NumVal(last'.v)
    \/ /\ EntryStep
       /\ queries[idx].setData = "setReplicationValue"
       /\ m = "monitorReplicationGauge"
       /\ ValidToken(last'.tok)
       /\ \/ l = <<SidText(last'.tok.sid), "gt">> /\ v = TimeUnix(last'.tok.t)
          \/ l = <<SidText(last'.tok.sid), "count">> /\ v = NumVal(last'.tok.c)
          \/ l = <<SidText(last'.tok.sid), "mod">> /\ v = NumVal(last'.tok.m)
    \/ /\ pc = "MasterQuery"
       /\ h'.delaySet
       /\ m = "monitorReplicationGauge"
       /\ l = <<SidText(h'.master.tok.sid), "delay">>
       /\ v = TimeUnix(h'.master.tok.t) - Cache[idx]

\* C16: gauge points are last-write-wins and never expire: a published
\* point stays published, and a point appears or changes only in a step
\* that sets it, to the value that step sets; every other step (an absent or
\* skipped entry, a failure, the end of a cycle) leaves every point as it
\* is.
C16_LastWriteWins ==
    [][\A m \in Metrics :
          /\ DOMAIN gauge[m] \subseteq DOMAIN gauge'[m]
          /\ \A l \in DOMAIN gauge'[m] :
                (l \notin DOMAIN gauge[m] \/ gauge'[m][l] # gauge[m][l]) =>
                    SetNow(m, l, gauge'[m][l])]_vars

C16_Witness ==
    /\ pc = "Returned"
    /\ cycles = 2
    /\ h.fail = "dial"
    /\ <<SidText("001"), "count">> \in DOMAIN Repl
    /\ Repl[<<SidText("001"), "count">>] = 0
    /\ gauge["monitoredObjectGauge"] # << >>

\* C17: the step of setValue on one entry of a search result: when the
\* attribute is absent or not a number, no point changes; otherwise the
\* point of the entry's dn is set to the number and no other point changes.
\* Either way the outcome of the cycle is not affected and the parser goes
\* on to the entries that remain.
C17_PlainEntry ==
    [][(EntryStep /\ queries[idx].setData = "setValue") =>
          LET m == queries[idx].metric
              l == <<last'.dn>>
          IN  /\ pc' # "Crashed"
              /\ ret' = ret
              /\ Cache' = Cache
              /\ remaining > 1 => pc' = "SetData" /\ remaining' = remaining - 1
              /\ IF last'.v \in GoodNums
                 THEN /\ l \in DOMAIN gauge'[m]
                      /\ gauge'[m][l] = NumVal(last'.v)
                      /\ \A n \in Metrics : \A k \in DOMAIN gauge'[n] :
                            (n # m \/ k # l) =>
                                k \in DOMAIN gauge[n] /\ gauge'[n][k] = gauge[n][k]
                 ELSE gauge' = gauge]_vars

C17_Witness ==
    /\ pc = "SetData"
    /\ queries[idx].setData = "setValue"
    /\ last.v = "abc"
    /\ last.q = idx
    /\ remaining = 1
    /\ ret = TRUE
    /\ gauge[queries[idx].metric] = << >>

\* C18: a bind is attempted on a connection, to the directory or to the
\* master, only when the configured credentials are non-empty: with an empty
\* user or password a cycle attempts no bind at all.
C18_BindOnlyWithCredentials ==
    /\ (scraper.User = "" \/ scraper.Pass = "") => h.binds = {}
    /\ "main" \in h.binds => scraper.User # "" /\ scraper.Pass # ""

\* C19: once cancellation is signalled, and with cycles that terminate and a
\* fair select, Start eventually returns (Stopped); once Stopped no cycle
\* starts and the scrape counter and the gauges stay as they are.
C19_StoppedIsFinal ==
    pc = "Stopped" =>
        /\ pc' = "Stopped"
        /\ UNCHANGED <<scrapeCounter, gauge, cycles>>

C19_ShutdownReached ==
    /\ cancelled ~> (pc = "Stopped")
    /\ [][C19_StoppedIsFinal]_vars

\* C20: no cycle starts after cancellation has been signalled: from Idle with
\* the cancellation raised the loop goes to Stopped and never into a cycle,
\* even when a tick is pending.
C20_CancelledIdleStops ==
    pc = "Idle" /\ cancelled =>
        /\ ~Scraping'
        /\ cycles' = cycles
        /\ pc' \in {"Idle", "Stopped"}

C20_NoCycleAfterCancel == [][C20_CancelledIdleStops]_vars

====
